---- MODULE Spec2Model ----
(***************************************************************************)
(* Foreign Disclosure Analysis Tool (src/main.py and the Clinical Research *)
(* MCP wrappers).  Python strings are sequences of one-character strings,  *)
(* Python values are tagged records, dictionaries are insertion-ordered    *)
(* sequences of <<key, value>> pairs.                                      *)
(***************************************************************************)
EXTENDS Integers, Sequences, FiniteSets, TLC

VARIABLES
    call,          \* one call of a pure function: [op, arg, ret, done]
    file,          \* researchers.csv: [readable, lines]
    client,        \* main.py module global `client` (TRUE: a client object, FALSE: None)
    pc,            \* position of main()
    researchers,   \* main(): researchers
    ri,            \* main(): index of the researcher of the outer loop
    publications,  \* main(): publications of the current researcher
    pi,            \* main(): index of the publication of the inner loop
    results,       \* main(): results
    report,        \* the rows written to OUTPUT_FILE, or NotWritten
    hist           \* history of the units of work done so far (ghost)

vars == <<call, file, client, pc, researchers, ri, publications, pi, results, report, hist>>

----------------------------------------------------------------------------
(* Bounds *)

\* longest analysis.countries list given to generate_output_row
MaxCountries == 3

----------------------------------------------------------------------------
(* Python values *)

PyNone == [t |-> "none", v |-> <<>>]
PyStr(s) == [t |-> "str", v |-> s]
PyInt(n) == [t |-> "int", v |-> n]
PyList(l) == [t |-> "list", v |-> l]
PyDict(d) == [t |-> "dict", v |-> d]

IsStr(x) == x.t = "str"
IsList(x) == x.t = "list"
IsDict(x) == x.t = "dict"

\* bool(x)
Truthy(x) ==
    CASE x.t = "none" -> FALSE
      [] x.t = "int" -> x.v # 0
      [] OTHER -> Len(x.v) > 0

\* key in d
HasKey(d, k) == \E i \in 1..Len(d.v) : d.v[i][1] = k

\* d.get(k, default)
Get(d, k, default) ==
    IF HasKey(d, k)
    THEN d.v[CHOOSE i \in 1..Len(d.v) : d.v[i][1] = k][2]
    ELSE default

\* the text of the dictionary keys that are iterated or formatted
KeyText(k) ==
    CASE k = "agency" -> <<"a","g","e","n","c","y">>
      [] k = "id" -> <<"i","d">>

----------------------------------------------------------------------------
(* Python strings *)

UpperCase == <<"A","B","C","D","E","F","G","H","I","J","K","L","M","N","O","P","Q","R","S","T","U","V","W","X","Y","Z">>
LowerCase == <<"a","b","c","d","e","f","g","h","i","j","k","l","m","n","o","p","q","r","s","t","u","v","w","x","y","z">>

LowerOf == [c \in {UpperCase[i] : i \in 1..26} |->
              LowerCase[CHOOSE i \in 1..26 : UpperCase[i] = c]]

LowerChar(c) == IF c \in DOMAIN LowerOf THEN LowerOf[c] ELSE c

\* s.lower()
Lower(s) == [i \in 1..Len(s) |-> LowerChar(s[i])]

\* sub in s
In(sub, s) ==
    \E k \in 0..(Len(s) - Len(sub)) : \A n \in 1..Len(sub) : s[k + n] = sub[n]

\* sep.join(parts), parts a sequence of strings
RECURSIVE Join(_, _)
Join(sep, parts) ==
    IF Len(parts) = 0 THEN <<>>
    ELSE IF Len(parts) = 1 THEN parts[1]
    ELSE parts[1] \o sep \o Join(sep, Tail(parts))

CommaSpace == <<","," ">>

\* iter(x) of a list, a dictionary (its keys) or a string (its characters)
Iterable(x) == x.t \in {"list", "dict", "str"}
Iter(x) ==
    CASE x.t = "list" -> x.v
      [] x.t = "dict" -> [i \in 1..Len(x.v) |-> PyStr(KeyText(x.v[i][1]))]
      [] x.t = "str" -> [i \in 1..Len(x.v) |-> PyStr(<<x.v[i]>>)]

\* the strings of a sequence of str values
Texts(xs) == [i \in 1..Len(xs) |-> xs[i].v]

\* sep.join(x) does not raise TypeError
Joinable(x) == Iterable(x) /\ \A i \in 1..Len(Iter(x)) : IsStr(Iter(x)[i])

----------------------------------------------------------------------------
(* src/main.py: constants *)

COUNTRIES_OF_CONCERN == << <<"R","u","s","s","i","a">>, <<"N","o","r","t","h"," ","K","o","r","e","a">>, <<"I","r","a","n">>, <<"C","h","i","n","a">> >>

ORGANIZATION == <<"B","o","s","t","o","n"," ","C","h","i","l","d","r","e","n","'","s"," ","H","o","s","p","i","t","a","l">>

----------------------------------------------------------------------------
(* src/main.py: generate_output_row *)

MatchesConcernExact(country) ==
    \E j \in 1..Len(COUNTRIES_OF_CONCERN) : COUNTRIES_OF_CONCERN[j] = country

\* lines 290-293: the inner loop over COUNTRIES_OF_CONCERN

MatchesConcern(country) ==
    \E j \in 1..Len(COUNTRIES_OF_CONCERN) :
        In(Lower(COUNTRIES_OF_CONCERN[j]), Lower(country))

RECURSIVE FlaggedCountriesDedup(_)
FlaggedCountriesDedup(countries) ==
    IF Len(countries) = 0 THEN <<>>
    ELSE LET rest == FlaggedCountriesDedup(SubSeq(countries, 1, Len(countries) - 1))
             c == countries[Len(countries)]
         IN  IF MatchesConcern(c) /\ ~\E i \in 1..Len(rest) : rest[i] = c
             THEN Append(rest, c) ELSE rest

\* lines 285-293: flagged_countries after the loop over countries (all strings)
RECURSIVE FlaggedCountries(_)
FlaggedCountries(countries) ==
    IF Len(countries) = 0 THEN <<>>
    ELSE IF MatchesConcern(Head(countries))
         THEN <<Head(countries)>> \o FlaggedCountries(Tail(countries))
         ELSE FlaggedCountries(Tail(countries))

FlaggedFieldOffByOne(flagged_countries) ==
    IF Len(flagged_countries) > 1 THEN <<"Y","e","s">> ELSE <<"N","o">>

\* line 296 and line 304

FlaggedField(flagged_countries) ==
    IF Len(flagged_countries) > 0 THEN <<"Y","e","s">> ELSE <<"N","o">>

WrapScalarNever(x) == x

\* lines 272-274 and 277-279: a scalar string becomes a one-element list
WrapScalar(x) == IF IsStr(x) THEN PyList(<<x>>) ELSE x

\* lines 263-311; PyNone is the `return None` of line 268 and of line 311
generate_output_row(researcher, publication, analysis) ==
    IF ~Truthy(analysis) THEN PyNone
    ELSE IF ~IsDict(analysis) THEN PyNone
    ELSE
      LET countries == WrapScalar(Get(analysis, "countries", PyList(<<>>)))
          funding_sources == WrapScalar(Get(analysis, "funding_sources", PyList(<<>>)))
      IN  IF Truthy(funding_sources) /\ ~Joinable(funding_sources) THEN PyNone
          ELSE IF ~Iterable(countries) THEN PyNone
          ELSE IF \E i \in 1..Len(Iter(countries)) : ~IsStr(Iter(countries)[i]) THEN PyNone
          ELSE IF ~IsDict(publication) THEN PyNone
          ELSE
            LET funding_str == IF Truthy(funding_sources)
                               THEN Join(CommaSpace, Texts(Iter(funding_sources)))
                               ELSE <<>>
                all_countries == Texts(Iter(countries))
                flagged_countries == FlaggedCountries(all_countries)
            IN  PyDict(<<
                  <<"publication_name", Get(publication, "journal", PyStr(<<>>))>>,
                  <<"research_title", Get(publication, "title", PyStr(<<>>))>>,
                  <<"author_name", PyStr(Get(researcher, "first_name", PyNone).v \o <<" ">>
                                         \o Get(researcher, "last_name", PyNone).v)>>,
                  <<"organization_affiliation", PyStr(ORGANIZATION)>>,
                  <<"countries_of_origin", PyStr(Join(CommaSpace, all_countries))>>,
                  <<"flagged", PyStr(FlaggedField(flagged_countries))>>,
                  <<"flagged_countries", PyStr(IF Len(flagged_countries) > 0
                                               THEN Join(CommaSpace, flagged_countries)
                                               ELSE <<>>)>>,
                  <<"confidence_score", Get(analysis, "confidence_score", PyInt(0))>>,
                  <<"funding_source", PyStr(funding_str)>>
                >>)

\* lines 272-274 as seen by the loop of line 288: the country strings iterated
CountriesOf(analysis) ==
    Texts(Iter(WrapScalar(Get(analysis, "countries", PyList(<<>>)))))

----------------------------------------------------------------------------
(* Values the pure functions are called with *)

Smith == PyDict(<< <<"last_name", PyStr(<<"S","m","i","t","h">>)>>, <<"first_name", PyStr(<<"J","a","n","e">>)>> >>)

FlagPublications ==
    { PyDict(<< <<"title", PyStr(<<"H","e","a","r","t">>)>>, <<"journal", PyStr(<<"J","P","e","d">>)>> >>),
      PyDict(<< <<"title", PyNone>> >>) }

CountryPool ==
    { PyStr(<<"R","u","s","s","i","a">>), PyStr(<<"S","p","a","i","n">>), PyStr(<<"P","e","o","p","l","e","'","s"," ","R","e","p","u","b","l","i","c"," ","o","f"," ","C","h","i","n","a">>),
      PyStr(<<"I","R","A","N">>), PyStr(<<"I","r","a","n","-","C","h","i","n","a">>), PyStr(<<>>), PyNone }

RECURSIVE SeqsUpTo(_, _)
SeqsUpTo(S, n) ==
    IF n = 0 THEN {<<>>}
    ELSE LET shorter == SeqsUpTo(S, n - 1)
         IN  shorter \cup {Append(s, x) : s \in {t \in shorter : Len(t) = n - 1}, x \in S}

\* the `countries` entry of an analysis: a list, a scalar, null, a number, or absent
CountriesEntries ==
    { << <<"countries", PyList(cs)>> >> : cs \in SeqsUpTo(CountryPool, MaxCountries) }
    \cup { << <<"countries", PyStr(<<"I","r","a","n">>)>> >>, << <<"countries", PyStr(<<"S","p","a","i","n">>)>> >>, << <<"countries", PyNone>> >>,
           << <<"countries", PyInt(5)>> >>, <<>> }

FundingEntries ==
    { << <<"funding_sources", PyList(<<PyStr(<<"N","I","H">>), PyStr(<<"R","S","F">>)>>)>> >>,
      << <<"funding_sources", PyStr(<<"N","I","H">>)>> >>,
      << <<"funding_sources", PyList(<<PyNone>>)>> >>,
      <<>> }

ConfidenceEntries == { << <<"confidence_score", PyInt(7)>> >>, <<>> }

FlagAnalyses ==
    { PyDict(c \o f \o s) : c \in CountriesEntries, f \in FundingEntries, s \in ConfidenceEntries }
    \cup { PyNone, PyList(<<>>), PyList(<<PyInt(1)>>), PyStr(<<"x">>), PyInt(0) }

----------------------------------------------------------------------------
(* One call of generate_output_row *)

Idle == [op |-> "none", arg |-> <<>>, ret |-> PyNone, done |-> TRUE]
NotWritten == PyNone

PipelineIdle ==
    /\ file = [readable |-> FALSE, lines |-> <<>>]
    /\ client = FALSE
    /\ pc = "idle"
    /\ researchers = <<>>
    /\ ri = 0
    /\ publications = <<>>
    /\ pi = 0
    /\ results = <<>>
    /\ report = NotWritten
    /\ hist = <<>>

pipelineVars == <<file, client, pc, researchers, ri, publications, pi, results, report, hist>>

InitFlag ==
    /\ call \in { [op |-> "generate_output_row", arg |-> <<Smith, p, a>>,
                   ret |-> PyNone, done |-> FALSE] :
                  p \in FlagPublications, a \in FlagAnalyses }
    /\ PipelineIdle

CallGenerateOutputRow ==
    /\ call.op = "generate_output_row"
    /\ ~call.done
    /\ call' = [call EXCEPT !.ret = generate_output_row(call.arg[1], call.arg[2], call.arg[3]),
                            !.done = TRUE]
    /\ UNCHANGED pipelineVars

NextFlag == CallGenerateOutputRow

SpecFlag == InitFlag /\ [][NextFlag]_vars

----------------------------------------------------------------------------
(* src/mcp_server_clinical_research.py: process_pubmed_results *)

\* longest batch of raw records given to process_pubmed_results
MaxBatch == 2

\* an exception leaving a function
Raised == [t |-> "raise", v |-> <<>>]

SemiSpace == <<";"," ">>
ColonSpace == <<":"," ">>

Digits == <<"0","1","2","3","4","5","6","7","8","9">>

\* str(n) of an integer n >= 0
RECURSIVE IntText(_)
IntText(n) ==
    IF n < 10 THEN <<Digits[n + 1]>>
    ELSE IntText(n \div 10) \o <<Digits[(n % 10) + 1]>>

\* f"{value}" of a string, a number or None
Format(x) ==
    CASE x.t = "str" -> x.v
      [] x.t = "int" -> IntText(x.v)
      [] x.t = "none" -> <<"N","o","n","e">>

\* line 139 and line 164: '; '.join(filter(None, fragments))
JoinFragments(fragments) ==
    LET kept == SelectSeq(fragments, Truthy)
    IN  IF \A i \in 1..Len(kept) : IsStr(kept[i])
        THEN PyStr(Join(SemiSpace, Texts(kept)))
        ELSE Raised

\* lines 131-137: the fragments taken from the authors
RECURSIVE AuthorFragments(_)
AuthorFragments(authors) ==
    IF Len(authors) = 0 THEN <<>>
    ELSE LET author == Head(authors)
             own == IF IsDict(author) /\ HasKey(author, "affiliation")
                    THEN IF IsList(Get(author, "affiliation", PyNone))
                         THEN Get(author, "affiliation", PyNone).v
                         ELSE <<Get(author, "affiliation", PyNone)>>
                    ELSE <<>>
         IN  own \o AuthorFragments(Tail(authors))

AffiliationFragmentsAuthorsFirst(publication) ==
    (IF HasKey(publication, "authors") /\ IsList(Get(publication, "authors", PyNone))
     THEN AuthorFragments(Get(publication, "authors", PyNone).v) ELSE <<>>)
    \o (IF IsList(Get(publication, "affiliations", PyNone))
        THEN Get(publication, "affiliations", PyNone).v
        ELSE IF IsStr(Get(publication, "affiliations", PyNone))
        THEN <<Get(publication, "affiliations", PyNone)>> ELSE <<>>)

\* lines 121-137: the list `affiliations` before the join
AffiliationFragments(publication) ==
    LET direct == IF HasKey(publication, "affiliations")
                  THEN LET a == Get(publication, "affiliations", PyNone)
                       IN  IF IsList(a) THEN a.v
                           ELSE IF IsStr(a) THEN <<a>>
                           ELSE <<>>
                  ELSE <<>>
        fromAuthors == IF HasKey(publication, "authors")
                          /\ IsList(Get(publication, "authors", PyNone))
                       THEN AuthorFragments(Get(publication, "authors", PyNone).v)
                       ELSE <<>>
    IN  direct \o fromAuthors

\* lines 111-139
extract_affiliations(publication) == JoinFragments(AffiliationFragments(publication))

FundingFieldsReversed == <<"acknowledgments", "grants", "grant_info", "funding_info", "funding">>

\* line 154
FundingFields == <<"funding", "funding_info", "grant_info", "grants", "acknowledgments">>

\* lines 155-162: the fragments one candidate field contributes
FieldFragments(publication, field) ==
    IF ~HasKey(publication, field) THEN <<>>
    ELSE LET x == Get(publication, field, PyNone)
         IN  IF IsList(x) THEN x.v
             ELSE IF IsStr(x) THEN <<x>>
             ELSE IF IsDict(x)
                  THEN [i \in 1..Len(x.v) |->
                          PyStr(KeyText(x.v[i][1]) \o ColonSpace \o Format(x.v[i][2]))]
             ELSE <<>>

\* lines 151-162: the list `funding_info` before the join
RECURSIVE FundingFragments(_, _)
FundingFragments(publication, n) ==
    IF n = 0 THEN <<>>
    ELSE FundingFragments(publication, n - 1) \o FieldFragments(publication, FundingFields[n])

\* lines 141-164
extract_funding_info(publication) ==
    JoinFragments(FundingFragments(publication, Len(FundingFields)))

\* line 93
JournalOf(item) ==
    IF IsDict(Get(item, "journal", PyNone))
    THEN Get(Get(item, "journal", PyNone), "name", PyStr(<<>>))
    ELSE Get(item, "journal", PyStr(<<>>))

\* lines 90-102: the canonical publication of one raw record, or Raised
Standardize(item) ==
    IF ~IsDict(item) THEN Raised
    ELSE IF extract_affiliations(item) = Raised THEN Raised
    ELSE IF extract_funding_info(item) = Raised THEN Raised
    ELSE PyDict(<<
           <<"title", Get(item, "title", PyStr(<<>>))>>,
           <<"authors", Get(item, "authors", PyList(<<>>))>>,
           <<"journal", JournalOf(item)>>,
           <<"publication_date", Get(item, "publication_date", PyStr(<<>>))>>,
           <<"abstract", Get(item, "abstract", PyStr(<<>>))>>,
           <<"doi", Get(item, "doi", PyStr(<<>>))>>,
           <<"pmid", Get(item, "pmid", PyStr(<<>>))>>,
           <<"affiliations", extract_affiliations(item)>>,
           <<"funding_info", extract_funding_info(item)>>,
           <<"keywords", Get(item, "keywords", PyList(<<>>))>>,
           <<"url", Get(item, "url", PyStr(<<>>))>>
         >>)

\* line 80: json.loads of the strings the tool is modelled to return
BadJson == PyStr(<<"<","h","t","m","l",">">>)
JsonLoads(s) ==
    CASE s = PyStr(<<"[","]">>) -> PyList(<<>>)
      [] s = PyStr(<<"{","}">>) -> PyDict(<<>>)
      [] s = PyStr(<<"n","u","l","l">>) -> PyNone
      [] OTHER -> Raised

\* lines 77-109: except Exception returns []
process_pubmed_results(result) ==
    LET parsed == IF IsStr(result) THEN JsonLoads(result) ELSE result
    IN  IF parsed = Raised THEN PyList(<<>>)
        ELSE IF ~IsList(parsed) /\ ~IsDict(parsed) THEN PyList(<<>>)
        ELSE LET items == IF IsList(parsed) THEN parsed
                          ELSE Get(parsed, "results", PyList(<<>>))
             IN  IF ~Iterable(items) THEN PyList(<<>>)
                 ELSE IF \E i \in 1..Len(Iter(items)) : Standardize(Iter(items)[i]) = Raised
                      THEN PyList(<<>>)
                 ELSE PyList([i \in 1..Len(Iter(items)) |-> Standardize(Iter(items)[i])])

----------------------------------------------------------------------------
(* Raw records process_pubmed_results is called with *)

WellFormedItem ==
    PyDict(<<
      <<"title", PyStr(<<"H","e","a","r","t">>)>>,
      <<"authors", PyList(<< PyDict(<< <<"name", PyStr(<<"L","i">>)>>,
                                       <<"affiliation", PyStr(<<"P","K","U",","," ","C","h","i","n","a">>)>> >>) >>)>>,
      <<"journal", PyDict(<< <<"name", PyStr(<<"J","P","e","d">>)>>, <<"issn", PyStr(<<"1","2">>)>> >>)>>,
      <<"abstract", PyStr(<<"A"," ","s","t","u","d","y">>)>>,
      <<"affiliations", PyList(<<PyStr(<<"B","C","H">>), PyStr(<<"P","K","U",","," ","C","h","i","n","a">>)>>)>>,
      <<"funding", PyList(<<PyStr(<<"N","I","H"," ","G","r","a","n","t">>)>>)>>,
      <<"keywords", PyList(<<PyStr(<<"h","e","a","r","t">>)>>)>>
    >>)

\* a record whose authors come before its affiliations, with empty fragments
AuthorsFirstItem ==
    PyDict(<< <<"authors", PyList(<<
                  PyDict(<< <<"affiliation", PyList(<<PyStr(<<>>), PyStr(<<"M","I","T">>)>>)>> >>),
                  PyDict(<< <<"affiliation", PyStr(<<>>)>> >>) >>)>>,
              <<"affiliations", PyList(<<PyStr(<<"B","C","H">>)>>)>> >>)

\* a record with three funding fields, not in the order they are scanned in
SeveralFundingFields ==
    PyDict(<< <<"acknowledgments", PyList(<<PyStr(<<"t","h","a","n","k","s">>)>>)>>,
              <<"grants", PyStr(<<"G","1">>)>>,
              <<"funding", PyList(<<PyStr(<<"N","I","H">>), PyStr(<<>>)>>)>> >>)

RawItems ==
    { WellFormedItem,
      PyDict(<<>>),
      PyDict(<< <<"title", PyNone>> >>),
      PyDict(<< <<"title", PyInt(5)>>, <<"abstract", PyNone>> >>),
      PyDict(<< <<"journal", PyStr(<<"J","P","e","d">>)>> >>),
      PyDict(<< <<"journal", PyDict(<< <<"issn", PyStr(<<"1","2">>)>> >>)>> >>),
      PyDict(<< <<"journal", PyNone>> >>),
      PyDict(<< <<"journal", PyList(<<PyStr(<<"J","P","e","d">>)>>)>> >>),
      PyDict(<< <<"affiliations", PyStr(<<"B","C","H",";"," ","M","I","T">>)>> >>),
      PyDict(<< <<"affiliations", PyList(<<PyStr(<<"B","C","H">>), PyStr(<<>>), PyNone, PyStr(<<"M","I","T">>)>>)>> >>),
      PyDict(<< <<"affiliations", PyList(<<PyInt(5)>>)>> >>),
      PyDict(<< <<"affiliations", PyNone>>, <<"keywords", PyNone>> >>),
      PyDict(<< <<"authors", PyList(<<
                    PyDict(<< <<"affiliation", PyList(<<PyStr(<<"B","C","H">>), PyStr(<<"M","I","T">>)>>)>> >>),
                    PyDict(<< <<"name", PyStr(<<"L","i">>)>> >>),
                    PyStr(<<"L","i">>),
                    PyDict(<< <<"affiliation", PyNone>> >>),
                    PyDict(<< <<"affiliation", PyStr(<<"T","e","h","r","a","n",","," ","I","r","a","n">>)>> >>) >>)>> >>),
      PyDict(<< <<"authors", PyList(<< PyDict(<< <<"affiliation", PyInt(5)>> >>) >>)>> >>),
      PyDict(<< <<"authors", PyNone>> >>),
      PyDict(<< <<"funding", PyDict(<< <<"agency", PyStr(<<"N","I","H">>)>>, <<"id", PyInt(17)>> >>)>> >>),
      SeveralFundingFields,
      PyDict(<< <<"grants", PyList(<<PyInt(5)>>)>> >>),
      PyDict(<< <<"funding_info", PyNone>>, <<"url", PyNone>> >>),
      AuthorsFirstItem,
      PyDict(<< <<"grant_info", PyDict(<< <<"id", PyStr(<<>>)>>, <<"agency", PyNone>> >>)>>,
                <<"funding_info", PyStr(<<"F","u","n","d">>)>>,
                <<"funding", PyStr(<<>>)>> >>),
      PyStr(<<"x">>),
      PyNone }

RawBatches == SeqsUpTo(RawItems, MaxBatch)

\* what use_mcp_tool can hand to process_pubmed_results
RawResults ==
    { PyList(b) : b \in RawBatches }
    \cup { PyDict(<< <<"results", PyList(b)>>, <<"total_count", PyInt(Len(b))>> >>) : b \in RawBatches }
    \cup { PyNone, PyInt(1), PyDict(<< <<"total_count", PyInt(0)>> >>),
           PyDict(<< <<"results", PyNone>> >>),
           PyStr(<<"[","]">>), PyStr(<<"{","}">>), PyStr(<<"n","u","l","l">>), BadJson }

InitNormalize ==
    /\ call \in { [op |-> "process_pubmed_results", arg |-> <<r>>,
                   ret |-> PyNone, done |-> FALSE] : r \in RawResults }
    /\ PipelineIdle

CallProcessPubmedResults ==
    /\ call.op = "process_pubmed_results"
    /\ ~call.done
    /\ call' = [call EXCEPT !.ret = process_pubmed_results(call.arg[1]), !.done = TRUE]
    /\ UNCHANGED pipelineVars

NextNormalize == CallProcessPubmedResults

SpecNormalize == InitNormalize /\ [][NextNormalize]_vars

----------------------------------------------------------------------------
(* The canonical publications of one call given to a second call *)

\* process_pubmed_results called on the list it returned
RefeedCanonical ==
    /\ call.op = "process_pubmed_results"
    /\ call.done
    /\ Len(call.ret.v) > 0
    /\ call' = [op |-> "refeed", arg |-> <<call.ret>>,
                ret |-> process_pubmed_results(call.ret), done |-> TRUE]
    /\ UNCHANGED pipelineVars

NextRenormalize == CallProcessPubmedResults \/ RefeedCanonical

SpecRenormalize == InitNormalize /\ [][NextRenormalize]_vars

----------------------------------------------------------------------------
(* src/main.py: load_researchers *)

Whitespace == {" ", "\t"}

\* s.strip()
RECURSIVE Strip(_)
Strip(s) ==
    IF Len(s) = 0 THEN s
    ELSE IF s[1] \in Whitespace THEN Strip(Tail(s))
    ELSE IF s[Len(s)] \in Whitespace THEN Strip(SubSeq(s, 1, Len(s) - 1))
    ELSE s

\* s.split(',')
RECURSIVE SplitComma(_)
SplitComma(s) ==
    IF \E k \in 1..Len(s) : s[k] = ","
    THEN LET k == CHOOSE k \in 1..Len(s) : s[k] = "," /\ \A m \in 1..(k - 1) : s[m] # ","
         IN  <<SubSeq(s, 1, k - 1)>> \o SplitComma(SubSeq(s, k + 1, Len(s)))
    ELSE <<s>>

\* line 89
Parts(line) == [i \in 1..Len(SplitComma(line)) |-> Strip(SplitComma(line)[i])]

\* lines 83-94: the researchers read from the lines after the header; a line
\* with fewer than two fields appends nothing
RECURSIVE ReadLines(_)
ReadLines(lines) ==
    IF Len(lines) = 0 THEN <<>>
    ELSE LET line == Strip(Head(lines))
         IN  IF Len(line) = 0 THEN ReadLines(Tail(lines))
             ELSE IF Len(Parts(line)) >= 2
                  THEN << PyDict(<< <<"last_name", PyStr(Parts(line)[1])>>,
                                    <<"first_name", PyStr(Parts(line)[2])>> >>) >>
                       \o ReadLines(Tail(lines))
                  ELSE ReadLines(Tail(lines))

load_researchers_strict(f) ==
    IF ~f.readable \/ Len(f.lines) = 0 \/ Len(Strip(Head(f.lines))) = 0 \/ Len(f.lines) = 1
    THEN Raised
    ELSE PyList(ReadLines(Tail(f.lines)))

\* lines 56-100: the list of researchers, or Raised when open() fails
load_researchers(f) ==
    IF ~f.readable THEN Raised
    ELSE IF Len(f.lines) = 0 THEN PyList(<<>>)
    ELSE IF Len(Strip(Head(f.lines))) = 0 THEN PyList(<<>>)
    ELSE PyList(ReadLines(Tail(f.lines)))

\* the roster files main() is run on
Header == <<"R","e","s","e","a","r","c","h","e","r"," ","l","a","s","t"," ","n","a","m","e",",","R","e","s","e","a","r","c","h"," ","f","i","r","s","t"," ","n","a","m","e">>

RosterFiles ==
    { [readable |-> FALSE, lines |-> <<>>],
      [readable |-> TRUE, lines |-> <<>>],
      [readable |-> TRUE, lines |-> <<Header>>],
      [readable |-> TRUE, lines |-> <<<<"n","a","m","e","s">>>>],
      [readable |-> TRUE, lines |-> <<<<" "," ">>, <<"S","m","i","t","h",",","J","a","n","e">>>>],
      [readable |-> TRUE, lines |-> <<Header, <<"S","m","i","t","h",",","J","a","n","e">>>>],
      [readable |-> TRUE, lines |-> <<Header, <<" ","S","m","i","t","h"," ",","," ","J","a","n","e"," ">>, <<>>, <<"D","o","e",",","J","o","h","n",",","M","D">>>>],
      [readable |-> TRUE, lines |-> <<Header, <<"S","m","i","t","h">>, <<"D","o","e",",","J","o","h","n">>>>] }

----------------------------------------------------------------------------
(* src/mcp_server_clinical_research.py: get_mock_pubmed_data *)

BCH_Harvard == <<"B","o","s","t","o","n"," ","C","h","i","l","d","r","e","n","'","s"," ","H","o","s","p","i","t","a","l",","," ","H","a","r","v","a","r","d"," ","M","e","d","i","c","a","l"," ","S","c","h","o","o","l",","," ","B","o","s","t","o","n",","," ","M","A",","," ","U","S","A">>
Beijing == <<"B","e","i","j","i","n","g"," ","C","h","i","l","d","r","e","n","'","s"," ","H","o","s","p","i","t","a","l",","," ","C","a","p","i","t","a","l"," ","M","e","d","i","c","a","l"," ","U","n","i","v","e","r","s","i","t","y",","," ","B","e","i","j","i","n","g",","," ","C","h","i","n","a">>
Moscow == <<"N","a","t","i","o","n","a","l"," ","M","e","d","i","c","a","l"," ","R","e","s","e","a","r","c","h"," ","C","e","n","t","e","r",","," ","M","o","s","c","o","w",","," ","R","u","s","s","i","a">>
London == <<"G","r","e","a","t"," ","O","r","m","o","n","d"," ","S","t","r","e","e","t"," ","H","o","s","p","i","t","a","l",","," ","L","o","n","d","o","n",","," ","U","K">>

Author(name, affiliation) ==
    PyDict(<< <<"name", PyStr(name)>>, <<"affiliation", PyStr(affiliation)>> >>)

\* line 179: the text before '[Author]', stripped
RECURSIVE BeforeAuthorTag(_)
BeforeAuthorTag(query) ==
    IF Len(query) < 8 THEN query
    ELSE IF SubSeq(query, 1, 8) = <<"[","A","u","t","h","o","r","]">> THEN <<>>
    ELSE <<Head(query)>> \o BeforeAuthorTag(Tail(query))

ResearcherName(query) ==
    IF In(<<"[","A","u","t","h","o","r","]">>, query) THEN Strip(BeforeAuthorTag(query)) ELSE <<"R","e","s","e","a","r","c","h","e","r">>

\* lines 182-234
get_mock_pubmed_data(query) ==
    <<
      PyDict(<<
        <<"title", PyStr(<<"N","o","v","e","l"," ","T","h","e","r","a","p","e","u","t","i","c"," ","A","p","p","r","o","a","c","h","e","s"," ","f","o","r"," ","P","e","d","i","a","t","r","i","c"," ","A","u","t","o","i","m","m","u","n","e"," ","D","i","s","o","r","d","e","r","s">>)>>,
        <<"authors", PyList(<< Author(ResearcherName(query), BCH_Harvard),
                               Author(<<"W","a","n","g",","," ","L","i">>, Beijing) >>)>>,
        <<"journal", PyStr(<<"J","o","u","r","n","a","l"," ","o","f"," ","P","e","d","i","a","t","r","i","c"," ","I","m","m","u","n","o","l","o","g","y">>)>>,
        <<"publication_date", PyStr(<<"2","0","2","4","-","0","3","-","1","5">>)>>,
        <<"abstract", PyStr(<<"T","h","i","s"," ","s","t","u","d","y"," ","e","x","p","l","o","r","e","s"," ","n","o","v","e","l"," ","t","h","e","r","a","p","e","u","t","i","c"," ","a","p","p","r","o","a","c","h","e","s"," ","f","o","r"," ","p","e","d","i","a","t","r","i","c"," ","a","u","t","o","i","m","m","u","n","e"," ","d","i","s","o","r","d","e","r","s",","," ","w","i","t","h"," ","a"," ","f","o","c","u","s"," ","o","n"," ","t","a","r","g","e","t","e","d"," ","i","m","m","u","n","o","m","o","d","u","l","a","t","i","o","n","."," ","O","u","r"," ","i","n","t","e","r","n","a","t","i","o","n","a","l"," ","c","o","l","l","a","b","o","r","a","t","i","o","n"," ","i","d","e","n","t","i","f","i","e","d"," ","s","e","v","e","r","a","l"," ","p","r","o","m","i","s","i","n","g"," ","t","r","e","a","t","m","e","n","t"," ","p","a","t","h","w","a","y","s",".">>)>>,
        <<"doi", PyStr(<<"1","0",".","1","2","3","4","/","j","p","i","m","m","u","n","o","l",".","2","0","2","4",".","0","1","2","3">>)>>,
        <<"pmid", PyStr(<<"3","6","7","8","9","0","1","2">>)>>,
        <<"affiliations", PyStr(BCH_Harvard \o SemiSpace \o Beijing)>>,
        <<"funding_info", PyStr(<<"N","I","H"," ","G","r","a","n","t"," ","R","0","1","-","A","I","1","2","3","4","5","6",";"," ","N","a","t","i","o","n","a","l"," ","N","a","t","u","r","a","l"," ","S","c","i","e","n","c","e"," ","F","o","u","n","d","a","t","i","o","n"," ","o","f"," ","C","h","i","n","a"," ","(","G","r","a","n","t"," ","N","o","."," ","8","2","0","7","1","7","5","4",")">>)>>,
        <<"keywords", PyList(<< PyStr(<<"p","e","d","i","a","t","r","i","c">>), PyStr(<<"a","u","t","o","i","m","m","u","n","e">>),
                                PyStr(<<"i","m","m","u","n","o","t","h","e","r","a","p","y">>), PyStr(<<"i","n","t","e","r","n","a","t","i","o","n","a","l"," ","c","o","l","l","a","b","o","r","a","t","i","o","n">>) >>)>>,
        <<"url", PyStr(<<"h","t","t","p","s",":","/","/","p","u","b","m","e","d",".","n","c","b","i",".","n","l","m",".","n","i","h",".","g","o","v","/","3","6","7","8","9","0","1","2","/">>)>>
      >>),
      PyDict(<<
        <<"title", PyStr(<<"G","e","n","e","t","i","c"," ","B","a","s","i","s"," ","o","f"," ","R","a","r","e"," ","C","o","n","g","e","n","i","t","a","l"," ","H","e","a","r","t"," ","D","e","f","e","c","t","s",":"," ","A"," ","M","u","l","t","i","-","C","e","n","t","e","r"," ","S","t","u","d","y">>)>>,
        <<"authors", PyList(<< Author(ResearcherName(query), BCH_Harvard),
                               Author(<<"P","e","t","r","o","v",","," ","M","i","k","h","a","i","l">>, Moscow),
                               Author(<<"S","m","i","t","h",","," ","J","o","h","n">>, London) >>)>>,
        <<"journal", PyStr(<<"P","e","d","i","a","t","r","i","c"," ","C","a","r","d","i","o","l","o","g","y">>)>>,
        <<"publication_date", PyStr(<<"2","0","2","3","-","1","1","-","2","2">>)>>,
        <<"abstract", PyStr(<<"T","h","i","s"," ","m","u","l","t","i","-","c","e","n","t","e","r"," ","s","t","u","d","y"," ","i","n","v","e","s","t","i","g","a","t","e","s"," ","t","h","e"," ","g","e","n","e","t","i","c"," ","b","a","s","i","s"," ","o","f"," ","r","a","r","e"," ","c","o","n","g","e","n","i","t","a","l"," ","h","e","a","r","t"," ","d","e","f","e","c","t","s"," ","a","c","r","o","s","s"," ","d","i","v","e","r","s","e"," ","p","o","p","u","l","a","t","i","o","n","s","."," ","W","e"," ","i","d","e","n","t","i","f","i","e","d"," ","s","e","v","e","r","a","l"," ","n","o","v","e","l"," ","g","e","n","e","t","i","c"," ","v","a","r","i","a","n","t","s"," ","a","s","s","o","c","i","a","t","e","d"," ","w","i","t","h"," ","s","p","e","c","i","f","i","c"," ","c","a","r","d","i","a","c"," ","m","a","l","f","o","r","m","a","t","i","o","n","s",".">>)>>,
        <<"doi", PyStr(<<"1","0",".","1","2","3","4","/","p","e","d","c","a","r","d",".","2","0","2","3",".","5","6","7","8">>)>>,
        <<"pmid", PyStr(<<"3","5","6","7","8","9","0","1">>)>>,
        <<"affiliations", PyStr(BCH_Harvard \o SemiSpace \o Moscow \o SemiSpace \o London)>>,
        <<"funding_info", PyStr(<<"A","m","e","r","i","c","a","n"," ","H","e","a","r","t"," ","A","s","s","o","c","i","a","t","i","o","n"," ","G","r","a","n","t"," ","A","H","A","-","C","H","D","-","2","0","2","3",";"," ","R","u","s","s","i","a","n"," ","S","c","i","e","n","c","e"," ","F","o","u","n","d","a","t","i","o","n"," ","G","r","a","n","t"," ","2","1","-","1","5","-","0","0","1","2","3">>)>>,
        <<"keywords", PyList(<< PyStr(<<"c","o","n","g","e","n","i","t","a","l"," ","h","e","a","r","t"," ","d","e","f","e","c","t","s">>), PyStr(<<"g","e","n","e","t","i","c","s">>),
                                PyStr(<<"p","e","d","i","a","t","r","i","c">>), PyStr(<<"i","n","t","e","r","n","a","t","i","o","n","a","l"," ","c","o","l","l","a","b","o","r","a","t","i","o","n">>) >>)>>,
        <<"url", PyStr(<<"h","t","t","p","s",":","/","/","p","u","b","m","e","d",".","n","c","b","i",".","n","l","m",".","n","i","h",".","g","o","v","/","3","5","6","7","8","9","0","1","/">>)>>
      >>),
      PyDict(<<
        <<"title", PyStr(<<"A","d","v","a","n","c","e","s"," ","i","n"," ","P","e","d","i","a","t","r","i","c"," ","N","e","u","r","o","i","m","a","g","i","n","g"," ","T","e","c","h","n","i","q","u","e","s">>)>>,
        <<"authors", PyList(<< Author(ResearcherName(query), BCH_Harvard),
                               Author(<<"J","o","h","n","s","o","n",","," ","E","m","i","l","y">>, BCH_Harvard) >>)>>,
        <<"journal", PyStr(<<"J","o","u","r","n","a","l"," ","o","f"," ","P","e","d","i","a","t","r","i","c"," ","N","e","u","r","o","l","o","g","y">>)>>,
        <<"publication_date", PyStr(<<"2","0","2","4","-","0","1","-","3","0">>)>>,
        <<"abstract", PyStr(<<"T","h","i","s"," ","r","e","v","i","e","w"," ","d","i","s","c","u","s","s","e","s"," ","r","e","c","e","n","t"," ","a","d","v","a","n","c","e","s"," ","i","n"," ","p","e","d","i","a","t","r","i","c"," ","n","e","u","r","o","i","m","a","g","i","n","g"," ","t","e","c","h","n","i","q","u","e","s"," ","a","n","d"," ","t","h","e","i","r"," ","c","l","i","n","i","c","a","l"," ","a","p","p","l","i","c","a","t","i","o","n","s","."," ","W","e"," ","h","i","g","h","l","i","g","h","t"," ","i","n","n","o","v","a","t","i","o","n","s"," ","i","n"," ","M","R","I"," ","p","r","o","t","o","c","o","l","s"," ","s","p","e","c","i","f","i","c","a","l","l","y"," ","d","e","s","i","g","n","e","d"," ","f","o","r"," ","p","e","d","i","a","t","r","i","c"," ","p","a","t","i","e","n","t","s",".">>)>>,
        <<"doi", PyStr(<<"1","0",".","1","2","3","4","/","j","p","e","d","n","e","u","r","o","l",".","2","0","2","4",".","9","0","1","2">>)>>,
        <<"pmid", PyStr(<<"3","4","5","6","7","8","9","0">>)>>,
        <<"affiliations", PyStr(BCH_Harvard)>>,
        <<"funding_info", PyStr(<<"N","I","H"," ","G","r","a","n","t"," ","R","0","1","-","N","S","6","5","4","3","2","1">>)>>,
        <<"keywords", PyList(<< PyStr(<<"n","e","u","r","o","i","m","a","g","i","n","g">>), PyStr(<<"p","e","d","i","a","t","r","i","c">>),
                                PyStr(<<"M","R","I">>), PyStr(<<"c","l","i","n","i","c","a","l"," ","a","p","p","l","i","c","a","t","i","o","n","s">>) >>)>>,
        <<"url", PyStr(<<"h","t","t","p","s",":","/","/","p","u","b","m","e","d",".","n","c","b","i",".","n","l","m",".","n","i","h",".","g","o","v","/","3","4","5","6","7","8","9","0","/">>)>>
      >>)
    >>

----------------------------------------------------------------------------
(* src/main.py: mock_analyze_foreign_affiliations *)

\* line 216
OTHER_COUNTRIES ==
    << <<"U","K">>, <<"U","n","i","t","e","d"," ","K","i","n","g","d","o","m">>, <<"E","n","g","l","a","n","d">>, <<"F","r","a","n","c","e">>, <<"G","e","r","m","a","n","y">>, <<"J","a","p","a","n">>,
       <<"C","a","n","a","d","a">>, <<"A","u","s","t","r","a","l","i","a">>, <<"S","p","a","i","n">>, <<"I","t","a","l","y">> >>

\* lines 195-198: one text field, lowercased, or Raised when it is no string
LowerField(publication_data, k) ==
    LET x == Get(publication_data, k, PyStr(<<>>))
    IN  IF IsStr(x) THEN PyStr(Lower(x.v)) ELSE Raised

MentionedCaseSensitive(country, title, affiliations, abstract, funding) ==
    \/ In(country, title)
    \/ In(country, affiliations)
    \/ In(country, abstract)
    \/ In(country, funding)

\* lines 212 and 217
Mentioned(country, title, affiliations, abstract, funding) ==
    \/ In(Lower(country), title)
    \/ In(Lower(country), affiliations)
    \/ In(Lower(country), abstract)
    \/ In(Lower(country), funding)

\* lines 210-218: countries_found
CountriesFound(title, affiliations, abstract, funding) ==
    { COUNTRIES_OF_CONCERN[i] : i \in { j \in 1..Len(COUNTRIES_OF_CONCERN) :
          Mentioned(COUNTRIES_OF_CONCERN[j], title, affiliations, abstract, funding) } }
    \cup { OTHER_COUNTRIES[i] : i \in { j \in 1..Len(OTHER_COUNTRIES) :
          Mentioned(OTHER_COUNTRIES[j], title, affiliations, abstract, funding) } }

\* lines 221-227
Institutions(affiliations) ==
    (IF In(<<"u","n","i","v","e","r","s","i","t","y">>, affiliations)
     THEN <<PyStr(<<"U","n","i","v","e","r","s","i","t","y"," ","m","e","n","t","i","o","n","e","d"," ","i","n"," ","a","f","f","i","l","i","a","t","i","o","n","s">>)>> ELSE <<>>)
    \o (IF In(<<"h","o","s","p","i","t","a","l">>, affiliations)
        THEN <<PyStr(<<"H","o","s","p","i","t","a","l"," ","m","e","n","t","i","o","n","e","d"," ","i","n"," ","a","f","f","i","l","i","a","t","i","o","n","s">>)>> ELSE <<>>)
    \o (IF In(<<"i","n","s","t","i","t","u","t","e">>, affiliations)
        THEN <<PyStr(<<"R","e","s","e","a","r","c","h"," ","I","n","s","t","i","t","u","t","e"," ","m","e","n","t","i","o","n","e","d"," ","i","n"," ","a","f","f","i","l","i","a","t","i","o","n","s">>)>> ELSE <<>>)

\* lines 230-236
FundingSources(funding) ==
    (IF In(<<"g","r","a","n","t">>, funding)
     THEN <<PyStr(<<"G","r","a","n","t"," ","m","e","n","t","i","o","n","e","d"," ","i","n"," ","f","u","n","d","i","n","g"," ","i","n","f","o">>)>> ELSE <<>>)
    \o (IF In(<<"n","i","h">>, funding) \/ In(<<"n","a","t","i","o","n","a","l"," ","i","n","s","t","i","t","u","t","e","s"," ","o","f"," ","h","e","a","l","t","h">>, funding)
        THEN <<PyStr(<<"N","I","H"," ","f","u","n","d","i","n","g"," ","m","e","n","t","i","o","n","e","d">>)>> ELSE <<>>)
    \o (IF In(<<"f","o","u","n","d","a","t","i","o","n">>, funding)
        THEN <<PyStr(<<"F","o","u","n","d","a","t","i","o","n"," ","f","u","n","d","i","n","g"," ","m","e","n","t","i","o","n","e","d">>)>> ELSE <<>>)

Min(a, b) == IF a < b THEN a ELSE b

\* lines 239-252
ConfidenceScore(countries_found, institutions, funding_sources, abstract) ==
    Min(1 + (IF countries_found # {} THEN 3 ELSE 0)
          + (IF \E i \in 1..Len(COUNTRIES_OF_CONCERN) :
                    COUNTRIES_OF_CONCERN[i] \in countries_found THEN 2 ELSE 0)
          + (IF Len(institutions) > 0 THEN 1 ELSE 0)
          + (IF Len(funding_sources) > 0 THEN 1 ELSE 0)
          + (IF In(<<"i","n","t","e","r","n","a","t","i","o","n","a","l">>, abstract) \/ In(<<"c","o","l","l","a","b","o","r","a","t","i","o","n">>, abstract)
             THEN 1 ELSE 0),
        10)

\* line 255: list(countries_found) lists a set in any order
RECURSIVE Orders(_)
Orders(S) ==
    IF S = {} THEN {<<>>}
    ELSE UNION { { <<x>> \o rest : rest \in Orders(S \ {x}) } : x \in S }

\* lines 183-261: the results the call can return; {Raised} when a text field
\* is no string
mock_analyze_foreign_affiliations(publication_data) ==
    LET title == LowerField(publication_data, "title")
        affiliations == LowerField(publication_data, "affiliations")
        abstract == LowerField(publication_data, "abstract")
        funding == LowerField(publication_data, "funding_info")
    IN  IF Raised \in {title, affiliations, abstract, funding} THEN {Raised}
        ELSE
          LET countries_found == CountriesFound(title.v, affiliations.v, abstract.v, funding.v)
              institutions == Institutions(affiliations.v)
              funding_sources == FundingSources(funding.v)
          IN  { PyDict(<<
                  <<"countries", PyList([i \in DOMAIN order |-> PyStr(order[i])])>>,
                  <<"institutions", PyList(institutions)>>,
                  <<"funding_sources", PyList(funding_sources)>>,
                  <<"confidence_score",
                    PyInt(ConfidenceScore(countries_found, institutions, funding_sources,
                                          abstract.v))>>,
                  <<"explanation",
                    PyStr(<<"M","o","c","k"," ","a","n","a","l","y","s","i","s"," ","f","o","u","n","d"," ">> \o IntText(Cardinality(countries_found))
                          \o <<" ","c","o","u","n","t","r","i","e","s",","," ">> \o IntText(Len(institutions))
                          \o <<" ","i","n","s","t","i","t","u","t","i","o","n","s",","," ","a","n","d"," ">> \o IntText(Len(funding_sources))
                          \o <<" ","f","u","n","d","i","n","g"," ","s","o","u","r","c","e","s",".">>)>>
                >>) : order \in Orders(countries_found) }

----------------------------------------------------------------------------
(* One publication analysed by the mock and turned into a row *)

MockTitles == { <<>>, <<"T","r","i","a","l"," ","i","n"," ","C","H","I","N","A">>, <<"U","k","r","a","i","n","e"," ","c","o","h","o","r","t">> }
MockAffiliations ==
    { <<>>, <<"D","u","k","e"," ","U","n","i","v","e","r","s","i","t","y">>, <<"T","e","h","r","a","n",","," ","I","r","a","n">>, <<"M","o","s","c","o","w",","," ","R","u","s","s","i","a",";"," ","L","o","n","d","o","n",","," ","U","K">>,
      <<"P","y","o","n","g","y","a","n","g",","," ","N","o","r","t","h"," ","K","o","r","e","a">> }
MockAbstracts == { <<>>, <<"A"," ","c","o","l","l","a","b","o","r","a","t","i","o","n"," ","w","i","t","h"," ","I","r","a","n","i","a","n"," ","a","n","d"," ","G","e","r","m","a","n"," ","c","e","n","t","e","r","s">> }
MockFundings == { <<>>, <<"N","I","H"," ","g","r","a","n","t">>, <<"S","c","i","e","n","c","e"," ","F","o","u","n","d","a","t","i","o","n"," ","o","f"," ","C","h","i","n","a">>, <<"S","p","a","i","n">> }

\* canonical publications as process_pubmed_results builds them, and two
\* publications with a text field that is no string
MockPublications ==
    { PyDict(<< <<"title", PyStr(t)>>, <<"affiliations", PyStr(a)>>,
                <<"abstract", PyStr(b)>>, <<"funding_info", PyStr(f)>> >>) :
        t \in MockTitles, a \in MockAffiliations, b \in MockAbstracts, f \in MockFundings }
    \cup { get_mock_pubmed_data(<<"S","m","i","t","h"," ","J","a","n","e","[","A","u","t","h","o","r","]">>)[i] : i \in 1..3 }
    \cup { PyDict(<<>>),
           PyDict(<< <<"title", PyNone>> >>),
           PyDict(<< <<"title", PyStr(<<"I","r","a","n">>)>>, <<"abstract", PyInt(5)>> >>) }

InitMock ==
    /\ call \in { [op |-> "mock_analyze_foreign_affiliations", arg |-> <<p>>,
                   ret |-> PyNone, done |-> FALSE] : p \in MockPublications }
    /\ PipelineIdle

\* main.py line 177: the analysis of the publication by the mock
CallMockAnalyze ==
    /\ call.op = "mock_analyze_foreign_affiliations"
    /\ ~call.done
    /\ \E analysis \in mock_analyze_foreign_affiliations(call.arg[1]) :
          call' = [call EXCEPT !.ret = analysis, !.done = TRUE]
    /\ UNCHANGED pipelineVars

\* main.py lines 334-335: the row of an analysis that is not empty
CallRowOfMock ==
    /\ call.op = "mock_analyze_foreign_affiliations"
    /\ call.done
    /\ call.ret # Raised
    /\ Truthy(call.ret)
    /\ call' = [op |-> "generate_output_row",
                arg |-> <<Smith, call.arg[1], call.ret>>,
                ret |-> generate_output_row(Smith, call.arg[1], call.ret),
                done |-> TRUE]
    /\ UNCHANGED pipelineVars

NextMock == CallMockAnalyze \/ CallRowOfMock

SpecMock == InitMock /\ [][NextMock]_vars

----------------------------------------------------------------------------
(* src/mcp_server_clinical_research.py: use_pubmed_search;
   src/main.py: query_pubmed_publications, analyze_foreign_affiliations *)

\* main.py line 110
Query(researcher) ==
    Get(researcher, "last_name", PyNone).v \o CommaSpace
    \o Get(researcher, "first_name", PyNone).v
    \o <<"[","A","u","t","h","o","r","]"," ","A","N","D"," ","B","o","s","t","o","n"," ","C","h","i","l","d","r","e","n","'","s"," ","H","o","s","p","i","t","a","l","[","A","f","f","i","l","i","a","t","i","o","n","]">>

\* lines 50-54: what the call of the MCP tool can do: raise (Raised), or return
\* a value of any shape
ToolOutcomes ==
    { Raised,
      PyNone,
      PyDict(<< <<"results", PyList(<< WellFormedItem,
                                      PyDict(<< <<"journal", PyStr(<<"J","P","e","d">>)>>,
                                                <<"affiliations", PyStr(<<"M","o","s","c","o","w",","," ","R","u","s","s","i","a">>)>> >>) >>)>> >>),
      PyList(<< PyDict(<< <<"title", PyNone>> >>) >>),
      PyList(<< PyDict(<< <<"affiliations", PyList(<<PyInt(5)>>)>> >>), WellFormedItem >>) }

\* lines 34-65: except Exception returns get_mock_pubmed_data
use_pubmed_search(tool, query) ==
    IF tool = Raised
    THEN PyList(get_mock_pubmed_data(query))
    ELSE process_pubmed_results(tool)

\* main.py lines 102-134
query_pubmed_publications(researcher, tool) ==
    LET response == use_pubmed_search(tool, Query(researcher))
    IN  IF IsDict(response) /\ HasKey(response, "results")
        THEN Get(response, "results", PyNone)
        ELSE IF IsList(response) THEN response
        ELSE PyList(<<>>)

\* the classifier is not called (client is None)
NotCalled == [t |-> "notcalled", v |-> <<>>]
\* line 172: json.loads raises on the content of the response
Unparseable == [t |-> "badjson", v |-> <<>>]

\* lines 161-172: what the call of the classifier can do: raise (Raised),
\* answer with text that is no JSON, or answer with a JSON value
ClassifierOutcomes ==
    { Raised,
      Unparseable,
      PyDict(<<>>),
      PyDict(<< <<"countries", PyList(<<PyStr(<<"R","u","s","s","i","a">>), PyStr(<<"S","p","a","i","n">>)>>)>>,
                <<"funding_sources", PyList(<<PyStr(<<"R","S","F">>)>>)>>,
                <<"confidence_score", PyInt(7)>> >>),
      PyDict(<< <<"countries", PyList(<<PyNone>>)>>, <<"confidence_score", PyInt(3)>> >>) }

\* lines 136-181: the values the call can return; Raised when the mock
\* analysis raises out of the except block
analyze_foreign_affiliations(publication_data, cls) ==
    IF client
    THEN IF cls \in {Raised, Unparseable}
         THEN mock_analyze_foreign_affiliations(publication_data)
         ELSE {cls}
    ELSE mock_analyze_foreign_affiliations(publication_data)

----------------------------------------------------------------------------
(* src/main.py: main *)

Event(kind, r, p, input, analysis, row, at) ==
    [kind |-> kind, r |-> r, p |-> p, input |-> input, analysis |-> analysis,
     row |-> row, at |-> at]

Init ==
    /\ call = Idle
    /\ file \in RosterFiles
    /\ client \in BOOLEAN
    /\ pc = "load"
    /\ researchers = <<>>
    /\ ri = 0
    /\ publications = <<>>
    /\ pi = 0
    /\ results = <<>>
    /\ report = NotWritten
    /\ hist = <<>>

\* line 319, and lines 344-346 when load_researchers raises
Load ==
    /\ pc = "load"
    /\ LET loaded == load_researchers(file)
       IN  IF loaded = Raised
           THEN /\ pc' = "raised"
                /\ UNCHANGED <<researchers, ri>>
           ELSE /\ researchers' = loaded.v
                /\ ri' = 1
                /\ pc' = IF Len(loaded.v) = 0 THEN "write" ELSE "fetch"
    /\ UNCHANGED <<call, file, client, publications, pi, results, report, hist>>

\* the position after the last publication of researcher ri
AfterResearcher == IF ri < Len(researchers) THEN "fetch" ELSE "write"

\* lines 325-329: one researcher of the outer loop
Fetch ==
    /\ pc = "fetch"
    /\ \E tool \in ToolOutcomes :
         LET found == query_pubmed_publications(researchers[ri], tool).v
         IN  /\ publications' = found
             /\ hist' = Append(hist, Event("fetch", ri, 0, tool, PyNone, PyNone, 0))
             /\ IF Len(found) = 0
                THEN /\ pc' = AfterResearcher
                     /\ ri' = IF ri < Len(researchers) THEN ri + 1 ELSE ri
                     /\ pi' = 0
                ELSE /\ pc' = "analyze"
                     /\ pi' = 1
                     /\ ri' = ri
    /\ UNCHANGED <<call, file, client, researchers, results, report>>

AppendRowFront(rows, row) == <<row>> \o rows

\* line 337

AppendRow(rows, row) == Append(rows, row)

\* lines 332-337: one publication of the inner loop; lines 344-346 when the
\* analysis raises
Analyze ==
    /\ pc = "analyze"
    /\ \E cls \in (IF client THEN ClassifierOutcomes ELSE {NotCalled}) :
       \E analysis \in analyze_foreign_affiliations(publications[pi], cls) :
         IF analysis = Raised
         THEN /\ pc' = "raised"
              /\ hist' = Append(hist, Event("unit", ri, pi, cls, Raised, PyNone, 0))
              /\ UNCHANGED <<ri, pi, results>>
         ELSE LET row == IF Truthy(analysis)
                         THEN generate_output_row(researchers[ri], publications[pi], analysis)
                         ELSE PyNone
              IN  /\ results' = IF Truthy(row) THEN AppendRow(results, row) ELSE results
                  /\ hist' = Append(hist, Event("unit", ri, pi, cls, analysis, row,
                                                IF Truthy(row) THEN Len(results) + 1 ELSE 0))
                  /\ IF pi < Len(publications)
                     THEN /\ pi' = pi + 1
                          /\ UNCHANGED <<pc, ri>>
                     ELSE /\ pc' = AfterResearcher
                          /\ ri' = IF ri < Len(researchers) THEN ri + 1 ELSE ri
                          /\ pi' = 0
    /\ UNCHANGED <<call, file, client, researchers, publications, report>>

\* lines 340-342
WriteReport ==
    /\ pc = "write"
    /\ report' = PyList(results)
    /\ pc' = "done"
    /\ UNCHANGED <<call, file, client, researchers, ri, publications, pi, results, hist>>

Next == Load \/ Fetch \/ Analyze \/ WriteReport

Spec == Init /\ [][Next]_vars

----------------------------------------------------------------------------
(* Claims about generate_output_row *)

\* a call of generate_output_row has returned a row
Returned == call.op = "generate_output_row" /\ call.done /\ call.ret # PyNone
RowField(k) == Get(call.ret, k, PyNone).v
ArgCountries == CountriesOf(call.arg[3])

\* the watchlist test as stated: lowercase(w) occurs inside lowercase(c)
OnWatchlist(c) ==
    \E j \in 1..Len(COUNTRIES_OF_CONCERN) :
        LET w == COUNTRIES_OF_CONCERN[j]
        IN  \E k \in 0..(Len(c) - Len(w)) :
                \A n \in 1..Len(w) : LowerChar(c[k + n]) = LowerChar(w[n])

\* the flagged_countries column read back as a list of entries
RECURSIVE SplitCommaSpace(_)
SplitCommaSpace(s) ==
    IF \E k \in 1..(Len(s) - 1) : SubSeq(s, k, k + 1) = CommaSpace
    THEN LET k == CHOOSE k \in 1..(Len(s) - 1) :
                    /\ SubSeq(s, k, k + 1) = CommaSpace
                    /\ \A m \in 1..(k - 1) : SubSeq(s, m, m + 1) # CommaSpace
         IN  <<SubSeq(s, 1, k - 1)>> \o SplitCommaSpace(SubSeq(s, k + 2, Len(s)))
    ELSE <<s>>

FlaggedEntries ==
    IF RowField("flagged_countries") = <<>> THEN {}
    ELSE {SplitCommaSpace(RowField("flagged_countries"))[i] :
            i \in 1..Len(SplitCommaSpace(RowField("flagged_countries")))}

\* C1: in every row generate_output_row returns, a country of analysis.countries
\* is listed in flagged_countries exactly when the lowercase form of some
\* COUNTRIES_OF_CONCERN entry is a substring of its lowercase form.
C1_SubstringFlagging ==
    Returned =>
        \A i \in 1..Len(ArgCountries) :
            (ArgCountries[i] \in FlaggedEntries) <=> OnWatchlist(ArgCountries[i])

\* a compound, differently cased name has been flagged by a substring match
C1_Witness ==
    /\ Returned
    /\ ArgCountries = << <<"P","e","o","p","l","e","'","s"," ","R","e","p","u","b","l","i","c"," ","o","f"," ","C","h","i","n","a">>, <<"S","p","a","i","n">>, <<"I","R","A","N">> >>
    /\ FlaggedEntries = { <<"P","e","o","p","l","e","'","s"," ","R","e","p","u","b","l","i","c"," ","o","f"," ","C","h","i","n","a">>, <<"I","R","A","N">> }

\* C2: every returned row has flagged = "Yes" when flagged_countries is
\* non-empty and flagged = "No" when it is empty; an empty countries list
\* gives flagged "No" and both country columns empty.
C2_FlaggedIffNonEmpty ==
    Returned =>
        /\ RowField("flagged") \in { <<"Y","e","s">>, <<"N","o">> }
        /\ (RowField("flagged") = <<"Y","e","s">>) <=> (RowField("flagged_countries") # <<>>)
        /\ ArgCountries = <<>> =>
              /\ RowField("flagged") = <<"N","o">>
              /\ RowField("flagged_countries") = <<>>
              /\ RowField("countries_of_origin") = <<>>

\* a row with one watchlist match among its countries has been returned
C2_Witness ==
    /\ Returned
    /\ ArgCountries = << <<"S","p","a","i","n">>, <<"R","u","s","s","i","a">> >>
    /\ RowField("flagged") = <<"Y","e","s">>

\* C3: countries_of_origin is the ", "-join of all countries in source order and
\* flagged_countries the ", "-join of the watchlist matches in the same order,
\* once per occurrence (no de-duplication).
SelectWatchlist(cs) == SelectSeq(cs, OnWatchlist)

C3_OrderedJoins ==
    Returned =>
        /\ RowField("countries_of_origin") = Join(CommaSpace, ArgCountries)
        /\ RowField("flagged_countries") = Join(CommaSpace, SelectWatchlist(ArgCountries))
        /\ ArgCountries = << <<"R","u","s","s","i","a">>, <<"S","p","a","i","n">> >> =>
              /\ RowField("flagged") = <<"Y","e","s">>
              /\ RowField("flagged_countries") = <<"R","u","s","s","i","a">>
              /\ RowField("countries_of_origin") = <<"R","u","s","s","i","a",","," ","S","p","a","i","n">>

\* a country that occurs twice and matches two watchlist entries is listed twice
C3_Witness ==
    /\ Returned
    /\ ArgCountries = << <<"I","r","a","n","-","C","h","i","n","a">>, <<"S","p","a","i","n">>, <<"I","r","a","n","-","C","h","i","n","a">> >>
    /\ RowField("flagged_countries") = <<"I","r","a","n","-","C","h","i","n","a",","," ","I","r","a","n","-","C","h","i","n","a">>
    /\ RowField("countries_of_origin") = <<"I","r","a","n","-","C","h","i","n","a",","," ","S","p","a","i","n",","," ","I","r","a","n","-","C","h","i","n","a">>
----------------------------------------------------------------------------
(* Claims about process_pubmed_results *)

Normalized == call.op = "process_pubmed_results" /\ call.done

\* the raw records of the result given to the call, when it holds a list of them
ArgRecords ==
    LET r == call.arg[1]
    IN  IF IsList(r) THEN r.v
        ELSE IF IsDict(r) /\ IsList(Get(r, "results", PyNone)) THEN Get(r, "results", PyNone).v
        ELSE <<>>

StringFields == {"title", "journal", "publication_date", "abstract", "doi", "pmid",
                 "affiliations", "funding_info", "url"}
ListFields == {"authors", "keywords"}

NoNulls(pub) ==
    /\ IsDict(pub)
    /\ \A k \in StringFields : HasKey(pub, k) /\ IsStr(Get(pub, k, PyNone))
    /\ \A k \in ListFields : HasKey(pub, k) /\ IsList(Get(pub, k, PyNone))

\* C10: for every batch of raw records (mappings whose fields may be absent or of
\* any type) process_pubmed_results returns one canonical publication per record,
\* every string field a string and every list field a list.
C10_NormalizeNeverFails ==
    (Normalized /\ \A i \in 1..Len(ArgRecords) : IsDict(ArgRecords[i])) =>
        /\ IsList(call.ret)
        /\ Len(call.ret.v) = Len(ArgRecords)
        /\ \A i \in 1..Len(call.ret.v) : NoNulls(call.ret.v[i])

----------------------------------------------------------------------------
(* Claims about main *)

Units == { i \in DOMAIN hist : hist[i].kind = "unit" }
Fetches == { i \in DOMAIN hist : hist[i].kind = "fetch" }
RowUnits == { i \in Units : hist[i].row # PyNone }

\* C4: when the classifier call raises or its answer is no JSON, no row is
\* produced for that publication and no analysis is substituted for it.
C4_ClassifierFailureSkipsRow ==
    \A i \in Units :
        hist[i].input \in {Raised, Unparseable} =>
            /\ ~IsDict(hist[i].analysis)
            /\ hist[i].row = PyNone

\* C5: no failure of a search or of an analysis aborts the run: main raises
\* only when load_researchers raises.
C5_UnitFailureNeverAborts ==
    pc = "raised" => load_researchers(file) = Raised

\* the tool returned something that holds no list of records
UnusableResult(tool) ==
    /\ tool # Raised
    /\ ~IsList(tool)
    /\ ~(IsDict(tool) /\ IsList(Get(tool, "results", PyNone)))

\* C6: when the search tool raises or returns an unusable result for a
\* researcher, none of that researcher's publications is analysed and the
\* researcher contributes no row.
C6_SearchFailureSkipsResearcher ==
    \A i \in Fetches :
        (hist[i].input = Raised \/ UnusableResult(hist[i].input)) =>
            \A j \in Units : hist[j].r # hist[i].r

\* C7: every publication processed with a non-null analysis has exactly one
\* row in results.
C7_OneRowPerAnalysis ==
    \A i \in Units :
        hist[i].analysis \notin {PyNone, Raised} =>
            /\ hist[i].row # PyNone
            /\ Cardinality({ j \in RowUnits : hist[j].r = hist[i].r /\ hist[j].p = hist[i].p }) = 1
            /\ hist[i].at \in 1..Len(results)

\* C8: results only grows at its end and lists the rows in researcher, then
\* publication order: every row appended is still at the place it was appended
\* at, no other row exists, and the report holds results as they are.
C8_AppendOnlyOrdered ==
    /\ Len(results) = Cardinality(RowUnits)
    /\ \A i \in RowUnits :
          /\ hist[i].at \in 1..Len(results)
          /\ results[hist[i].at] = hist[i].row
    /\ \A i, j \in RowUnits :
          (hist[i].r < hist[j].r \/ (hist[i].r = hist[j].r /\ hist[i].p < hist[j].p))
              => hist[i].at < hist[j].at
    /\ report # NotWritten => report = PyList(results)

\* the report holds rows of two researchers, several of the first one
C8_Witness ==
    /\ pc = "done"
    /\ Len(report.v) >= 3
    /\ \E i, j, k \in RowUnits :
          hist[i].r = 1 /\ hist[j].r = 1 /\ hist[i].p < hist[j].p /\ hist[k].r = 2

\* C9: on an empty roster file or one with only a header line, main does not
\* raise, performs no search and no analysis, and writes a report of zero rows.
C9_EmptyRosterEmptyReport ==
    (file.readable /\ Len(file.lines) <= 1) =>
        /\ load_researchers(file) = PyList(<<>>)
        /\ pc \in {"load", "write", "done"}
        /\ hist = <<>>
        /\ results = <<>>
        /\ pc # "done" => ENABLED Next
        /\ pc = "done" => report = PyList(<<>>)

\* the run on a roster with only a header line has written its empty report
C9_Witness ==
    /\ file.lines = <<Header>>
    /\ pc = "done"
    /\ report = PyList(<<>>)

----------------------------------------------------------------------------
(* Claims about normalization applied twice *)

Refed == call.op = "refeed" /\ call.done

\* C11: a canonical publication given to process_pubmed_results again keeps
\* its affiliations text and its funding text.
C11_NormalizeIdempotent ==
    Refed =>
        /\ Len(call.ret.v) = Len(call.arg[1].v)
        /\ \A i \in 1..Len(call.ret.v) :
              /\ Get(call.ret.v[i], "affiliations", PyNone)
                    = Get(call.arg[1].v[i], "affiliations", PyNone)
              /\ Get(call.ret.v[i], "funding_info", PyNone)
                    = Get(call.arg[1].v[i], "funding_info", PyNone)

(* Claims about the confidence score *)

\* C12: the confidence_score of every row generate_output_row returns is an
\* integer from 1 to 10, also when the analysis omits confidence_score.
C12_ConfidenceInRange ==
    Returned =>
        /\ Get(call.ret, "confidence_score", PyNone).t = "int"
        /\ Get(call.ret, "confidence_score", PyNone).v \in 1..10

(* Claims about the roster *)

\* the number of comma-separated fields of a line
Fields(line) == 1 + Cardinality({k \in 1..Len(line) : line[k] = ","})

\* a data line that is not blank and has fewer than two fields
MalformedRoster ==
    /\ file.readable
    /\ \E n \in 2..Len(file.lines) :
          /\ \E k \in 1..Len(file.lines[n]) : file.lines[n][k] \notin Whitespace
          /\ Fields(file.lines[n]) < 2

\* C13: with an unreadable roster, or a roster holding a data line of fewer
\* than two fields, main stops at load_researchers: nothing is queried, no
\* row is built and no report is written.
C13_BadRosterIsFatal ==
    (~file.readable \/ MalformedRoster) =>
        /\ pc \in {"load", "raised"}
        /\ hist = <<>>
        /\ results = <<>>
        /\ report = NotWritten

(* Claims about scalar countries and funding_sources *)

ArgAnalysis == call.arg[3]

\* C14: a string given for countries or funding_sources counts as a list of
\* that one string: countries_of_origin and funding_source are the string
\* itself, flagged is decided on the whole string, a list of funding sources
\* is joined with ", " in order, and no funding source gives the empty string;
\* countries = "Iran" gives countries_of_origin "Iran" and flagged "Yes".
C14_ScalarIsOneElement ==
    Returned =>
        LET c == Get(ArgAnalysis, "countries", PyList(<<>>))
            f == Get(ArgAnalysis, "funding_sources", PyList(<<>>))
        IN  /\ IsStr(c) =>
                  /\ RowField("countries_of_origin") = c.v
                  /\ RowField("flagged") = IF OnWatchlist(c.v) THEN <<"Y","e","s">> ELSE <<"N","o">>
                  /\ RowField("flagged_countries") = IF OnWatchlist(c.v) THEN c.v ELSE <<>>
            /\ IsStr(f) => RowField("funding_source") = f.v
            /\ IsList(f) => RowField("funding_source") = Join(CommaSpace, Texts(f.v))
            /\ ~HasKey(ArgAnalysis, "funding_sources") => RowField("funding_source") = <<>>
            /\ c = PyStr(<<"I","r","a","n">>) =>
                  /\ RowField("countries_of_origin") = <<"I","r","a","n">>
                  /\ RowField("flagged") = <<"Y","e","s">>

\* a row built from the scalar country "Iran" and the scalar funding source "NIH"
C14_Witness ==
    /\ Returned
    /\ Get(ArgAnalysis, "countries", PyNone) = PyStr(<<"I","r","a","n">>)
    /\ Get(ArgAnalysis, "funding_sources", PyNone) = PyStr(<<"N","I","H">>)
    /\ RowField("countries_of_origin") = <<"I","r","a","n">>
    /\ RowField("flagged") = <<"Y","e","s">>
    /\ RowField("funding_source") = <<"N","I","H">>

(* Claims about the canonical fields of one record *)

\* the call returned one canonical publication per raw record
RecordWise ==
    /\ Normalized
    /\ IsList(call.ret)
    /\ Len(call.ret.v) = Len(ArgRecords)

\* the journal name as stated: the 'name' entry of a mapping, a string as it
\* is, the empty string otherwise
StatedJournal(item) ==
    LET j == Get(item, "journal", PyNone)
    IN  IF IsDict(j) THEN Get(j, "name", PyStr(<<>>))
        ELSE IF IsStr(j) THEN j
        ELSE PyStr(<<>>)

\* C15: the canonical journal is the 'name' entry of a mapping (the empty
\* string without one), the raw value of a string, and the empty string when
\* journal is absent, null, a list or a number.
C15_JournalName ==
    RecordWise =>
        \A i \in 1..Len(ArgRecords) :
            Get(call.ret.v[i], "journal", PyNone) = StatedJournal(ArgRecords[i])

\* the fragments a value stands for: the items of a list, else the value
ItemsOf(x) == IF IsList(x) THEN x.v ELSE <<x>>

\* the affiliation fragments of authors 1..n, in author order
RECURSIVE StatedAuthorPart(_, _)
StatedAuthorPart(authors, n) ==
    IF n = 0 THEN <<>>
    ELSE StatedAuthorPart(authors, n - 1)
         \o (IF IsDict(authors[n]) /\ HasKey(authors[n], "affiliation")
             THEN ItemsOf(Get(authors[n], "affiliation", PyNone))
             ELSE <<>>)

\* the fragments as stated: the raw 'affiliations' first, then the authors
StatedAffiliations(item) ==
    LET a == Get(item, "affiliations", PyNone)
        authors == Get(item, "authors", PyNone)
    IN  (IF IsList(a) \/ IsStr(a) THEN ItemsOf(a) ELSE <<>>)
        \o (IF IsList(authors) THEN StatedAuthorPart(authors.v, Len(authors.v)) ELSE <<>>)

NonEmptyText(x) == IsStr(x) /\ x.v # <<>>

\* a text beginning or ending with "; ", or holding "; ; ": an empty fragment
HasEmptyFragment(text) ==
    \/ In(SemiSpace \o SemiSpace, text)
    \/ Len(text) >= 2 /\ SubSeq(text, 1, 2) = SemiSpace
    \/ Len(text) >= 2 /\ SubSeq(text, Len(text) - 1, Len(text)) = SemiSpace

\* C16: the affiliations text of a canonical publication is the "; "-join of
\* the non-empty fragments of the raw 'affiliations' followed by those of
\* each author's 'affiliation', in the order met; it is empty when there is
\* none, and holds no empty fragment.
C16_AffiliationsText ==
    RecordWise =>
        \A i \in 1..Len(ArgRecords) :
            LET kept == SelectSeq(StatedAffiliations(ArgRecords[i]), NonEmptyText)
                text == Get(call.ret.v[i], "affiliations", PyNone)
            IN  /\ text = PyStr(Join(SemiSpace, Texts(kept)))
                /\ kept = <<>> => text = PyStr(<<>>)
                /\ ~HasEmptyFragment(text.v)

\* a record with empty fragments in its authors, listed before 'affiliations'
C16_Witness ==
    /\ RecordWise
    /\ \E i \in 1..Len(ArgRecords) :
          /\ ArgRecords[i] = AuthorsFirstItem
          /\ Get(call.ret.v[i], "affiliations", PyNone) = PyStr(<<"B","C","H",";"," ","M","I","T">>)

\* the fragments one funding field stands for, as stated
StatedFieldPart(item, field) ==
    LET x == Get(item, field, PyNone)
    IN  IF ~HasKey(item, field) THEN <<>>
        ELSE IF IsDict(x)
             THEN [k \in 1..Len(x.v) |->
                     PyStr(KeyText(x.v[k][1]) \o ColonSpace \o Format(x.v[k][2]))]
        ELSE IF IsList(x) \/ IsStr(x) THEN ItemsOf(x)
        ELSE <<>>

\* all fragments in the stated order of the fields
StatedFunding(item) ==
    StatedFieldPart(item, "funding") \o StatedFieldPart(item, "funding_info")
    \o StatedFieldPart(item, "grant_info") \o StatedFieldPart(item, "grants")
    \o StatedFieldPart(item, "acknowledgments")

\* C17 as stated: the funding text is the "; "-join of all fragments of the
\* fields funding, funding_info, grant_info, grants, acknowledgments, in that
\* order whatever the order of the keys in the record.
C17_FundingJoinsAllFragments ==
    RecordWise =>
        \A i \in 1..Len(ArgRecords) :
            (\A k \in 1..Len(StatedFunding(ArgRecords[i])) : IsStr(StatedFunding(ArgRecords[i])[k]))
            => Get(call.ret.v[i], "funding_info", PyNone)
                  = PyStr(Join(SemiSpace, Texts(StatedFunding(ArgRecords[i]))))

\* C17: the funding text is the "; "-join of the non-empty fragments of the
\* fields funding, funding_info, grant_info, grants, acknowledgments, in that
\* order whatever the order of the keys in the record.
C17_FundingJoinsNonEmptyFragments ==
    RecordWise =>
        \A i \in 1..Len(ArgRecords) :
            Get(call.ret.v[i], "funding_info", PyNone)
                = PyStr(Join(SemiSpace, Texts(SelectSeq(StatedFunding(ArgRecords[i]), NonEmptyText))))

\* a record with three funding fields in another key order and an empty item
C17_Witness ==
    /\ RecordWise
    /\ \E i \in 1..Len(ArgRecords) :
          /\ ArgRecords[i] = SeveralFundingFields
          /\ Get(call.ret.v[i], "funding_info", PyNone) = PyStr(<<"N","I","H",";"," ","G","1",";"," ","t","h","a","n","k","s">>)

----------------------------------------------------------------------------
(* Claims about the mock analysis followed by generate_output_row *)

\* the lowercase form of name occurs inside the lowercase form of text
Occurs(name, text) ==
    \E k \in 0..(Len(text) - Len(name)) :
        \A n \in 1..Len(name) : LowerChar(text[k + n]) = LowerChar(name[n])

\* the row was built from the analysis of the mock
RowOfMock == Returned /\ HasKey(call.arg[3], "explanation")

\* a watchlist country is named in one of the four text fields
WatchlistNamed ==
    \E j \in 1..Len(COUNTRIES_OF_CONCERN) :
        \E k \in {"title", "affiliations", "abstract", "funding_info"} :
            Occurs(COUNTRIES_OF_CONCERN[j], Get(call.arg[2], k, PyStr(<<>>)).v)

\* C18: a row built from the mock analysis has flagged "Yes" exactly when the
\* lowercase name of a watchlist country occurs in the lowercased title,
\* affiliations, abstract or funding_info; no country of the other list is
\* flagged, and every flagged country is a watchlist entry.
C18_MockFlagsWatchlistOnly ==
    RowOfMock =>
        /\ (RowField("flagged") = <<"Y","e","s">>) <=> WatchlistNamed
        /\ \A j \in 1..Len(OTHER_COUNTRIES) : OTHER_COUNTRIES[j] \notin FlaggedEntries
        /\ \A e \in FlaggedEntries :
              \E j \in 1..Len(COUNTRIES_OF_CONCERN) : e = COUNTRIES_OF_CONCERN[j]

\* "CHINA" in the title and "Duke" in the affiliations: China is flagged, UK
\* is listed and not flagged
C18_Witness ==
    /\ RowOfMock
    /\ Get(call.arg[2], "title", PyNone) = PyStr(<<"T","r","i","a","l"," ","i","n"," ","C","H","I","N","A">>)
    /\ Get(call.arg[2], "affiliations", PyNone) = PyStr(<<"D","u","k","e"," ","U","n","i","v","e","r","s","i","t","y">>)
    /\ RowField("flagged") = <<"Y","e","s">>
    /\ RowField("flagged_countries") = <<"C","h","i","n","a">>
    /\ In(<<"U","K">>, RowField("countries_of_origin"))


====
